---- MODULE Spec2Model ----
(***************************************************************************)
(* Project store, generation orchestration, step cursor and document       *)
(* normalizer of the geometry tutor (App component, ChatInterface,         *)
(* geminiService.generateGeometry).                                        *)
(*                                                                         *)
(* A JavaScript object is a function whose DOMAIN is the set of keys that  *)
(* hold a defined value: reading a key outside the DOMAIN yields           *)
(* undefined.  Project fields that no modelled operation reads (name,      *)
(* subjectId, message timestamps) are not carried, and the Vietnamese      *)
(* message texts are written in ASCII.  null is the string "null" where a  *)
(* string may stand (currentProjectId) and NullGeometry where a scene may. *)
(***************************************************************************)
EXTENDS Integers, Sequences, FiniteSets

VARIABLES
    projects,          \* useState<Project[]>: newest-created first
    currentProjectId,  \* useState<string | null>
    isLoading,         \* useState(false): the single in-flight flag
    pending,           \* handleSendMessage calls suspended at their await
    outcome,           \* try/catch branch the last resumed handleSendMessage took
    now,               \* the reading Date.now() returns
    phase,             \* "mounting" before the mount effect ran, then "running";
                       \* "crashed" when the first render threw
    storage,           \* localStorage['hinh-hoc-ai-projects']
    normIn,            \* input of a stand-alone generateGeometry call
    normOut,           \* what that call returned or threw
    isChatOpen,        \* useState(false): the chat panel is mounted
    activeTab,         \* ChatInterface: useState('chat')
    chatGeometry       \* the geometryData prop of a stand-alone ChatInterface

chatVars == <<isChatOpen, activeTab, chatGeometry>>

vars == <<projects, currentProjectId, isLoading, pending, outcome, now, phase,
          storage, normIn, normOut, chatVars>>

appVars == <<projects, currentProjectId, isLoading, pending, outcome, now, phase,
             storage>>

(* ------------------------------ bounds -------------------------------- *)
MaxProjects == 3
MaxClock == 2
MaxMessages == 4

(* --------------------------- JavaScript values ------------------------ *)
Null == "null"

Has(obj, k) == k \in DOMAIN obj

EmptyObject == [k \in {} |-> 0]

Digit(d) == <<"0", "1", "2", "3", "4", "5", "6", "7", "8", "9">>[d + 1]

RECURSIVE ToString(_)
ToString(n) == IF n < 10 THEN Digit(n) ELSE ToString(n \div 10) \o Digit(n % 10)

\* projects.filter(p => p.id !== id)
RECURSIVE FilterOutId(_, _)
FilterOutId(s, id) ==
    IF Len(s) = 0 THEN <<>>
    ELSE (IF Head(s).id # id THEN <<Head(s)>> ELSE <<>>) \o FilterOutId(Tail(s), id)

\* { ...p, ...updates }
Merge(p, updates) ==
    [k \in DOMAIN p \cup DOMAIN updates |->
        IF k \in DOMAIN updates THEN updates[k] ELSE p[k]]

RemoveAt(s, k) == [i \in 1..(Len(s) - 1) |-> IF i < k THEN s[i] ELSE s[i + 1]]

(* ------------------------------ data ---------------------------------- *)
NullGeometry == [null |-> TRUE]

DEFAULT_WELCOME_MSG == [id |-> "welcome", role |-> "model", text |-> "Chao em!"]

ContainerFields == {"points", "edges", "faces", "angles", "circles", "steps", "reasoning"}

StepList(n) == [i \in 1..n |-> [stepNumber |-> i]]

(* ----------------- geminiService.generateGeometry --------------------- *)
\* Boolean(parsed.k): undefined and "" are falsy, an array (even []) never is
Truthy(parsed, k) ==
    Has(parsed, k) /\ (k \in ContainerFields \/ parsed[k] # "")

\* parsed.k || fallback
OrDefault(parsed, k, fallback) ==
    IF Truthy(parsed, k) THEN parsed[k] ELSE fallback

OptionalOrEmpty(parsed, k) == [f \in {k} |-> OrDefault(parsed, k, "")]

\* key: value, where an undefined value leaves the key undefined
Optional(parsed, k) ==
    IF Has(parsed, k) THEN [f \in {k} |-> parsed[k]] ELSE EmptyObject

\* the object literal returned after JSON.parse
NormalizeNoReasoningDefault(parsed) ==
    Merge(Merge(Merge(
        [points   |-> OrDefault(parsed, "points", <<>>),
         edges    |-> OrDefault(parsed, "edges", <<>>),
         faces    |-> OrDefault(parsed, "faces", <<>>),
         angles   |-> OrDefault(parsed, "angles", <<>>),
         circles  |-> OrDefault(parsed, "circles", <<>>),
         steps    |-> OrDefault(parsed, "steps", <<>>),
         type     |-> OrDefault(parsed, "type", "2D")],
        Optional(parsed, "reasoning")),
        Optional(parsed, "message")),
        Optional(parsed, "mathSolution"))

Normalize(parsed) ==
    Merge(Merge(
        [points    |-> OrDefault(parsed, "points", <<>>),
         edges     |-> OrDefault(parsed, "edges", <<>>),
         faces     |-> OrDefault(parsed, "faces", <<>>),
         angles    |-> OrDefault(parsed, "angles", <<>>),
         circles   |-> OrDefault(parsed, "circles", <<>>),
         steps     |-> OrDefault(parsed, "steps", <<>>),
         reasoning |-> OrDefault(parsed, "reasoning", <<>>),
         type      |-> OrDefault(parsed, "type", "2D")],
        Optional(parsed, "message")),
        Optional(parsed, "mathSolution"))

Return(data) == [ok |-> TRUE, data |-> data]
Throw(error) == [ok |-> FALSE, error |-> error]

\* What ai.models.generateContent and response.text can deliver: the call
\* rejects, or the text is undefined/empty, is not JSON, is the JSON text
\* null, or is the JSON text of an object.
Rejects == [kind |-> "rejects"]
NoText == [kind |-> "noText"]
NotJson == [kind |-> "notJson"]
JsonNull == [kind |-> "jsonNull"]
JsonObject(doc) == [kind |-> "jsonObject", value |-> doc]

generateGeometry(apiKey, response) ==
    IF ~apiKey THEN Throw("API Key is missing")
    ELSE IF response = Rejects THEN Throw("generateContent rejected")
    ELSE IF response = NoText THEN Throw("No response from AI")
    ELSE IF response = NotJson THEN Throw("SyntaxError")
    ELSE IF response = JsonNull THEN Throw("TypeError")
    ELSE Return(Normalize(response.value))

(* ------------------------ raw documents ------------------------------- *)
Sample(k) ==
    CASE k = "points"       -> {<<"A", "B", "C">>}
      [] k = "edges"        -> {<<"AB">>}
      [] k = "faces"        -> {<<"ABC">>}
      [] k = "angles"       -> {<<"a1">>}
      [] k = "circles"      -> {<<"c1">>}
      [] k = "steps"        -> {StepList(1)}
      [] k = "reasoning"    -> {<<"r1">>}
      [] k = "type"         -> {"2D", "3D", "4D", ""}
      [] k = "message"      -> {"Hi", ""}
      [] k = "mathSolution" -> {"sol"}

OptionalFields == ContainerFields \cup {"type", "message", "mathSolution"}

\* field k absent, or present with one of its sample values
Choice(k) == {EmptyObject} \cup {[f \in {k} |-> v] : v \in Sample(k)}

\* every object holding any subset of the optional fields
RawDocs ==
    {Merge(Merge(Merge(Merge(Merge(Merge(Merge(Merge(Merge(
        po, ed), fa), an), ci), st), re), ty), me), ma) :
        po \in Choice("points"), ed \in Choice("edges"), fa \in Choice("faces"),
        an \in Choice("angles"), ci \in Choice("circles"), st \in Choice("steps"),
        re \in Choice("reasoning"), ty \in Choice("type"), me \in Choice("message"),
        ma \in Choice("mathSolution")}

ServiceResponses == {Rejects, NoText, NotJson, JsonNull} \cup {JsonObject(d) : d \in RawDocs}

NotRun == [notRun |-> TRUE]


(* --------------------------- App: state ------------------------------- *)
\* localStorage.getItem yields null (Absent), a text JSON.parse rejects
\* (Unparseable), or the JSON text of a value
Absent == [kind |-> "absent"]
Unparseable == [kind |-> "unparseable"]

StoredEmpty(projs) == [kind |-> "json", value |-> <<>>]

\* JSON.stringify(projects) under setItem, read back by JSON.parse: strings,
\* numbers, null, arrays and the defined keys of objects come back as written
Stored(projs) == [kind |-> "json", value |-> projs]

\* the JSON text of a value that is no array (null, a number, an object)
JsonNotArray == [kind |-> "jsonNotArray"]

\* useState initialiser: try { saved ? JSON.parse(saved) : [] } catch { [] }
\* (for the texts that hold an array or yield none)
LoadProjects(st) ==
    IF st = Absent \/ st = Unparseable THEN <<>> ELSE st.value

\* The first render reads projects.find(...): on a loaded value that is no
\* array it throws a TypeError, no error boundary catches it, and React
\* unmounts the tree before any effect ran.
FirstRenderThrows(st) == st = JsonNotArray

\* what localStorage may hold when the page is first opened
InitialStorage == {Absent, Unparseable, Stored(<<>>), JsonNotArray}

\* projects.find(p => p.id === id): index of the first match, 0 when none
FindIndex(projs, id) ==
    IF \E i \in 1..Len(projs) : projs[i].id = id
    THEN CHOOSE i \in 1..Len(projs) :
            projs[i].id = id /\ \A j \in 1..(i - 1) : projs[j].id # id
    ELSE 0

HasProject(projs, id) == FindIndex(projs, id) # 0

activeProject == projects[FindIndex(projects, currentProjectId)]

messages ==
    IF HasProject(projects, currentProjectId) THEN activeProject.messages
    ELSE <<DEFAULT_WELCOME_MSG>>

geometryData ==
    IF HasProject(projects, currentProjectId) THEN activeProject.geometryData
    ELSE NullGeometry

\* activeProject?.currentStepIndex || 0
currentStepIndex ==
    IF HasProject(projects, currentProjectId) THEN activeProject.currentStepIndex
    ELSE 0

updateOrInsertProject(prev, id, updates, t) ==
    IF \E i \in 1..Len(prev) : prev[i].id = id
    THEN [i \in 1..Len(prev) |->
            IF prev[i].id = id
            THEN Merge(Merge(prev[i], updates), [lastModified |-> t])
            ELSE prev[i]]
    ELSE <<Merge(Merge([id |-> id, messages |-> <<DEFAULT_WELCOME_MSG>>,
                        geometryData |-> NullGeometry, currentStepIndex |-> 0],
                       updates), [lastModified |-> t])>> \o prev

\* prev.map(p => p.id === id ? { ...p, ...updates, lastModified: Date.now() } : p)
\* with id the currentProjectId of the render that created the closure
updateActiveProject(prev, id, updates, t) ==
    [i \in 1..Len(prev) |->
        IF prev[i].id = id
        THEN Merge(Merge(prev[i], updates), [lastModified |-> t])
        ELSE prev[i]]

MostRecentlyCreated(projs) == projs[1]

\* [...projects].sort((a,b) => b.lastModified - a.lastModified)[0]
\* (the sort is stable: of the projects tied for the greatest lastModified,
\* the first in list order comes first)
MostRecent(projs) ==
    projs[CHOOSE i \in 1..Len(projs) :
            /\ \A j \in 1..Len(projs) : projs[j].lastModified <= projs[i].lastModified
            /\ \A j \in 1..(i - 1) : projs[j].lastModified < projs[i].lastModified]

NewProjectKeepingScene(t) ==
    [id |-> ToString(t),
     messages |-> <<DEFAULT_WELCOME_MSG>>,
     geometryData |-> geometryData,
     currentStepIndex |-> currentStepIndex,
     lastModified |-> t]

NewProject(t) ==
    [id |-> ToString(t),
     messages |-> <<DEFAULT_WELCOME_MSG>>,
     geometryData |-> NullGeometry,
     currentStepIndex |-> 0,
     lastModified |-> t]

ServiceInputs == [apiKey : BOOLEAN, response : ServiceResponses]

InitNorm ==
    /\ normIn \in ServiceInputs
    /\ normOut = NotRun
    /\ projects = <<>> /\ currentProjectId = Null /\ isLoading = FALSE
    /\ pending = <<>> /\ outcome = "none" /\ now = 0 /\ phase = "mounting"
    /\ storage = Absent
    /\ isChatOpen = FALSE /\ activeTab = "chat" /\ chatGeometry = NullGeometry

RunGenerateGeometry ==
    /\ normOut = NotRun
    /\ normOut' = generateGeometry(normIn.apiKey, normIn.response)
    /\ UNCHANGED <<normIn, appVars, chatVars>>

NextNorm == RunGenerateGeometry

SpecNorm == InitNorm /\ [][NextNorm]_vars

(* --------------------------- App: inputs ------------------------------ *)
UserTexts == {"ve tam giac ABC"}

DocRequired ==
    [points |-> <<"A", "B">>, edges |-> <<"AB">>, steps |-> StepList(1), type |-> "2D"]

DocFull ==
    [points |-> <<"A", "B", "C">>, edges |-> <<"AB">>, faces |-> <<"ABC">>,
     angles |-> <<"a1">>, circles |-> <<"c1">>, steps |-> StepList(3),
     reasoning |-> <<"r1">>, type |-> "3D", message |-> "Hi", mathSolution |-> "sol"]

AppDocs == {EmptyObject, DocFull}

AppResponses == {Rejects, NoText, NotJson, JsonNull} \cup {JsonObject(d) : d \in AppDocs}

\* scenes the renderer writes back through onDataUpdate
EditedScenes == {Normalize(DocRequired)}

\* The renderer (Canvas) and the step controls are not part of the sources
\* at hand; after the design document (4.2, 6) they write back edits of, and
\* move the cursor over, the scene that is displayed.
SceneDisplayed == geometryData # NullGeometry

\* indices a caller of setCurrentStepIndex asks for: goTo(-5), goTo(99), and
\* advance from the first step, goTo(currentStepIndex + 1)
CursorRequests ==
    {-5, 99} \cup (IF currentStepIndex = 0 THEN {currentStepIndex + 1} ELSE {})

\* messages the store holds after the welcome messages (bounded by
\* MaxMessages: a send needs room for the user message and its reply)
RECURSIVE MessageCount(_)
MessageCount(projs) ==
    IF Len(projs) = 0 THEN 0
    ELSE (Len(Head(projs).messages) - 1) + MessageCount(Tail(projs))

(* --------------------------- App: operations -------------------------- *)
\* the page is opened: the useState initialisers and the first render; in
\* phase "crashed" no App is mounted and the state variables hold nothing
Init ==
    /\ storage \in InitialStorage
    /\ projects = IF FirstRenderThrows(storage) THEN <<>> ELSE LoadProjects(storage)
    /\ currentProjectId = Null
    /\ isLoading = FALSE
    /\ pending = <<>>
    /\ outcome = "none"
    /\ now = 0
    /\ phase = IF FirstRenderThrows(storage) THEN "crashed" ELSE "mounting"
    /\ normIn = [apiKey |-> TRUE, response |-> NoText]
    /\ normOut = NotRun
    /\ isChatOpen = FALSE /\ activeTab = "chat" /\ chatGeometry = NullGeometry

\* Date.now() advances between two events, or does not
Tick ==
    /\ now < MaxClock
    /\ now' = now + 1
    /\ UNCHANGED <<projects, currentProjectId, isLoading, pending, outcome, phase,
                   storage, normIn, normOut, chatVars>>

\* the mount effect, followed by the persistence effect
Initialize ==
    /\ phase = "mounting"
    /\ phase' = "running"
    /\ IF Len(projects) = 0
       THEN /\ projects' = <<NewProject(now)>> \o projects
            /\ currentProjectId' = NewProject(now).id
       ELSE /\ currentProjectId' =
                IF currentProjectId = Null THEN MostRecent(projects).id
                ELSE currentProjectId
            /\ UNCHANGED projects
    /\ storage' = Stored(projects')
    /\ UNCHANGED <<isLoading, pending, outcome, now, normIn, normOut, chatVars>>

\* the page is loaded again: every useState starts over, localStorage stays
\* (the App only ever stores an array, so the first render does not throw)
Reload ==
    /\ phase = "running"
    /\ phase' = "mounting"
    /\ projects' = LoadProjects(storage)
    /\ currentProjectId' = Null
    /\ isLoading' = FALSE
    /\ pending' = <<>>
    /\ UNCHANGED <<outcome, now, storage, normIn, normOut, chatVars>>

createProject ==
    /\ phase = "running"
    /\ Len(projects) < MaxProjects
    /\ projects' = <<NewProject(now)>> \o projects
    /\ currentProjectId' = NewProject(now).id
    /\ storage' = Stored(projects')
    /\ UNCHANGED <<isLoading, pending, outcome, now, phase, normIn, normOut, chatVars>>

\* onClick of the sidebar row of projects[i]
selectProject(i) ==
    /\ phase = "running"
    /\ currentProjectId' = projects[i].id
    /\ UNCHANGED <<projects, isLoading, pending, outcome, now, phase, storage,
                   normIn, normOut, chatVars>>

\* the reference deleteProject leaves active
ActiveAfterDelete(id, newProjects) ==
    IF currentProjectId = id /\ Len(newProjects) > 0 THEN newProjects[1].id
    ELSE currentProjectId

\* the trash button of the row of projects[i], confirmed
deleteProject(i) ==
    /\ phase = "running"
    /\ LET id == projects[i].id
           newProjects == FilterOutId(projects, id)
       IN  /\ projects' = newProjects
           /\ currentProjectId' = ActiveAfterDelete(id, newProjects)
    /\ storage' = Stored(projects')
    /\ UNCHANGED <<isLoading, pending, outcome, now, phase, normIn, normOut, chatVars>>

\* the send button and the text input are disabled while isLoading
SendNeverDisabled == FALSE

SendDisabled == isLoading

UserMessage(text, t) == [id |-> ToString(t), role |-> "user", text |-> text]

\* ChatInterface.handleSend -> App.handleSendMessage, up to its await
handleSendMessage(text) ==
    /\ phase = "running"
    /\ ~SendDisabled
    /\ currentProjectId # Null
    /\ LET updatedMessages == Append(messages, UserMessage(text, now))
       IN  /\ MessageCount(projects) + 2 <= MaxMessages
           /\ projects' = updateActiveProject(projects, currentProjectId,
                                [messages |-> updatedMessages], now)
           /\ pending' = Append(pending,
                  [target |-> currentProjectId, updatedMessages |-> updatedMessages])
    /\ isLoading' = TRUE
    /\ storage' = Stored(projects')
    /\ UNCHANGED <<currentProjectId, outcome, now, phase, normIn, normOut, chatVars>>

\* the currentProjectId the resumed closure reads: that of the render whose
\* handleSendMessage was called
ClosureProjectId(g) == g.target

AiMessage(data, t) ==
    [id |-> ToString(t + 1), role |-> "model",
     text |-> IF Truthy(data, "message") THEN data.message ELSE "Xong!"]

FailureMessage(t) == [id |-> ToString(t), role |-> "model", text |-> "Loi roi em a."]

IsNoFailureMessage(m) == m.text # "Loi roi em a."

SuccessUpdatesDropFailures(g, data, t) ==
    [messages |-> Append(SelectSeq(g.updatedMessages, IsNoFailureMessage),
                         AiMessage(data, t)),
     geometryData |-> data,
     currentStepIndex |-> 0]

SuccessUpdatesKeepCursor(g, data, t) ==
    [messages |-> Append(g.updatedMessages, AiMessage(data, t)),
     geometryData |-> data]

SuccessUpdates(g, data, t) ==
    [messages |-> Append(g.updatedMessages, AiMessage(data, t)),
     geometryData |-> data,
     currentStepIndex |-> 0]

FailureUpdatesClearScene(g, t) ==
    [messages |-> Append(g.updatedMessages, FailureMessage(t)),
     geometryData |-> NullGeometry]

FailureUpdates(g, t) ==
    [messages |-> Append(g.updatedMessages, FailureMessage(t))]

LoadingKeptAfterFinally == isLoading

\* finally { setIsLoading(false) }
LoadingAfterFinally == FALSE

\* handleSendMessage from its await on: try, catch, finally
resumeSendMessage(k, apiKey, response) ==
    /\ phase = "running"
    /\ LET g == pending[k]
           result == generateGeometry(apiKey, response)
       IN  IF result.ok
           THEN /\ projects' = updateActiveProject(projects, ClosureProjectId(g),
                                    SuccessUpdates(g, result.data, now), now)
                /\ outcome' = "success"
           ELSE /\ projects' = updateActiveProject(projects, ClosureProjectId(g),
                                    FailureUpdates(g, now), now)
                /\ outcome' = "failure"
    /\ pending' = RemoveAt(pending, k)
    /\ isLoading' = LoadingAfterFinally
    /\ storage' = Stored(projects')
    /\ UNCHANGED <<currentProjectId, now, phase, normIn, normOut, chatVars>>

\* (idx) => updateActiveProject({ currentStepIndex: idx })
setCurrentStepIndex(idx) ==
    /\ phase = "running"
    /\ SceneDisplayed
    /\ projects' = updateActiveProject(projects, currentProjectId,
                        [currentStepIndex |-> idx], now)
    /\ storage' = Stored(projects')
    /\ UNCHANGED <<currentProjectId, isLoading, pending, outcome, now, phase,
                   normIn, normOut, chatVars>>

\* (newData) => updateActiveProject({ geometryData: newData })
onDataUpdate(newData) ==
    /\ phase = "running"
    /\ SceneDisplayed
    /\ projects' = updateActiveProject(projects, currentProjectId,
                        [geometryData |-> newData], now)
    /\ storage' = Stored(projects')
    /\ UNCHANGED <<currentProjectId, isLoading, pending, outcome, now, phase,
                   normIn, normOut, chatVars>>

Next ==
    \/ Tick
    \/ Initialize
    \/ Reload
    \/ createProject
    \/ \E i \in 1..Len(projects) : selectProject(i)
    \/ \E i \in 1..Len(projects) : deleteProject(i)
    \/ \E text \in UserTexts : handleSendMessage(text)
    \/ \E k \in 1..Len(pending), apiKey \in BOOLEAN, response \in AppResponses :
          resumeSendMessage(k, apiKey, response)
    \/ \E idx \in CursorRequests : setCurrentStepIndex(idx)
    \/ \E newData \in EditedScenes : onDataUpdate(newData)

Spec == Init /\ [][Next]_vars

\* the promise generateGeometry returned settles: the awaited
\* generateContent call fulfils or rejects, and every path of
\* generateGeometry after it returns or throws
Settle ==
    \E k \in 1..Len(pending), apiKey \in BOOLEAN, response \in AppResponses :
        resumeSendMessage(k, apiKey, response)

\* Spec, where a promise that can settle does settle
SpecLive == Init /\ [][Next]_vars /\ WF_vars(Settle)

(* ------------------------- ChatInterface: tabs ------------------------ *)
\* geometryData?.reasoning?.length: the scene has a non-empty reasoning list
HasReasoning(g) == Has(g, "reasoning") /\ Len(g.reasoning) > 0

\* geometryData?.mathSolution: the scene has a solution text
HasSolution(g) == Truthy(g, "mathSolution")

\* the effect on [geometryData]: it selects the reasoning tab, else the
\* solution tab, else it leaves the tab as it is
TabAfterEffect(tab, g) ==
    IF HasReasoning(g) THEN "reasoning"
    ELSE IF HasSolution(g) THEN "solution"
    ELSE tab

\* disabled attribute of the three tab buttons
TabButtonEnabled(tab, g) ==
    CASE tab = "chat"      -> TRUE
      [] tab = "reasoning" -> HasReasoning(g)
      [] tab = "solution"  -> HasSolution(g)

Tabs == {"chat", "reasoning", "solution"}

\* documents a generation response may hold, as far as the tabs can tell
ChatDocs ==
    {Merge(Merge(Merge(Merge(re, ma), me), ty), st) :
        re \in Choice("reasoning"), ma \in Choice("mathSolution"),
        me \in Choice("message"), ty \in Choice("type"), st \in Choice("steps")}

\* values of the geometryData prop: null for a project without a scene, or
\* a scene generateGeometry returned
ChatScenes == {NullGeometry} \cup {Normalize(d) : d \in ChatDocs}

InitChat ==
    /\ isChatOpen = FALSE /\ activeTab = "chat" /\ chatGeometry = NullGeometry
    /\ normIn = [apiKey |-> TRUE, response |-> NoText]
    /\ normOut = NotRun
    /\ projects = <<>> /\ currentProjectId = Null /\ isLoading = FALSE
    /\ pending = <<>> /\ outcome = "none" /\ now = 0 /\ phase = "running"
    /\ storage = Absent

\* setIsChatOpen(!isChatOpen): opening mounts ChatInterface, whose state
\* starts at 'chat' and whose effect runs once; closing unmounts it
toggleChat ==
    /\ isChatOpen' = ~isChatOpen
    /\ activeTab' = IF isChatOpen THEN "chat"
                    ELSE TabAfterEffect("chat", chatGeometry)
    /\ UNCHANGED <<chatGeometry, normIn, normOut, appVars>>

\* the active project's scene is replaced (a generation response, a
\* renderer write-back, another project selected); the effect runs if the
\* panel is mounted
geometryDataChanges(g) ==
    /\ chatGeometry' = g
    /\ activeTab' = IF isChatOpen THEN TabAfterEffect(activeTab, g) ELSE activeTab
    /\ UNCHANGED <<isChatOpen, normIn, normOut, appVars>>

\* onClick of a tab button that is not disabled
clickTab(tab) ==
    /\ isChatOpen
    /\ TabButtonEnabled(tab, chatGeometry)
    /\ activeTab' = tab
    /\ UNCHANGED <<isChatOpen, chatGeometry, normIn, normOut, appVars>>

NextChat ==
    \/ toggleChat
    \/ \E g \in ChatScenes : geometryDataChanges(g)
    \/ \E tab \in Tabs : clickTab(tab)

SpecChat == InitChat /\ [][NextChat]_vars

(* ============================ properties ============================== *)
Last(s) == s[Len(s)]

Max(a, b) == IF a >= b THEN a ELSE b
Min(a, b) == IF a <= b THEN a ELSE b

\* the step resumes the k-th suspended handleSendMessage
ResumeStep(k) ==
    /\ phase = "running" /\ phase' = "running"
    /\ k \in 1..Len(pending)
    /\ pending' = RemoveAt(pending, k)

\* the step suspends a new handleSendMessage at its await
SendStep == Len(pending') = Len(pending) + 1

SceneAndCursorUnchanged ==
    /\ Len(projects') = Len(projects)
    /\ \A i \in 1..Len(projects) :
          /\ projects'[i].geometryData = projects[i].geometryData
          /\ projects'[i].currentStepIndex = projects[i].currentStepIndex

\* C1: a response, success or failure, changes at most one project of the
\* store, the one the generation was started on: every other project,
\* the one active when the response arrives included, keeps all its fields.
C1_ResponseAppliesToSenderOnly ==
    [][\A k \in 1..Len(pending) : ResumeStep(k) =>
          /\ Len(projects') = Len(projects)
          /\ \A i \in 1..Len(projects) : projects'[i] # projects[i] =>
                /\ projects[i].id = pending[k].target
                /\ \A j \in 1..Len(projects) : j # i => projects'[j] = projects[j]]_vars

\* What holds of the closure: a response changes only projects whose id is
\* the currentProjectId of the send, and gives each of them the transcript
\* of the send plus one message.
ResponseGoesToClosureId ==
    [][\A k \in 1..Len(pending) : ResumeStep(k) =>
          /\ Len(projects') = Len(projects)
          /\ \A i \in 1..Len(projects) :
                IF projects[i].id = pending[k].target
                THEN /\ projects'[i].id = projects[i].id
                     /\ Len(projects'[i].messages) = Len(pending[k].updatedMessages) + 1
                     /\ SubSeq(projects'[i].messages, 1, Len(pending[k].updatedMessages))
                            = pending[k].updatedMessages
                ELSE projects'[i] = projects[i]]_vars

\* C2: no two suspended generations were started on the same project.
C2_OneGenerationPerProject ==
    \A j, k \in 1..Len(pending) : pending[j].target = pending[k].target => j = k

\* a generation is in flight on the active project, and the store has room
\* for another exchange: only the disabled send control holds a second send back
C2_Witness ==
    /\ phase = "running" /\ isLoading /\ Len(pending) = 1
    /\ pending[1].target = currentProjectId
    /\ HasProject(projects, currentProjectId)
    /\ MessageCount(projects) + 2 <= MaxMessages

\* C3: neither the send nor a failed response changes any project's scene or
\* cursor, and a failed response leaves as the target's transcript the
\* transcript of the send, which ends with the user's message, followed by
\* exactly one message: the failure message, of role model.
C3_FailureKeepsScene ==
    [][/\ SendStep => SceneAndCursorUnchanged
       /\ \A k \in 1..Len(pending) : (ResumeStep(k) /\ outcome' = "failure") =>
             /\ SceneAndCursorUnchanged
             /\ Last(pending[k].updatedMessages).role = "user"
             /\ \A i \in 1..Len(projects) : projects[i].id = pending[k].target =>
                   /\ Len(projects'[i].messages) = Len(pending[k].updatedMessages) + 1
                   /\ SubSeq(projects'[i].messages, 1, Len(pending[k].updatedMessages))
                          = pending[k].updatedMessages
                   /\ Last(projects'[i].messages).role = "model"
                   /\ Last(projects'[i].messages).text = "Loi roi em a."]_vars

\* a generation has just failed on a project that shows a scene with the
\* cursor moved off step 0: the scene and the cursor are still there
C3_Witness ==
    /\ phase = "running" /\ outcome = "failure" /\ ~isLoading
    /\ HasProject(projects, currentProjectId)
    /\ geometryData # NullGeometry /\ currentStepIndex # 0
    /\ Len(messages) = 5
    /\ Last(messages).text = "Loi roi em a."
    /\ Last(messages).id = ToString(now)

\* C4: a successful response stores, in the one step, a normalized document
\* as the target's scene, cursor 0, and the transcript of the send plus the
\* model reply whose text is the scene's message, or "Xong!" without one.
C4_SuccessIsOneUpdate ==
    [][\A k \in 1..Len(pending) : (ResumeStep(k) /\ outcome' = "success") =>
          \A i \in 1..Len(projects) : projects[i].id = pending[k].target =>
             /\ projects'[i].geometryData \in {Normalize(d) : d \in AppDocs}
             /\ projects'[i].currentStepIndex = 0
             /\ Len(projects'[i].messages) = Len(pending[k].updatedMessages) + 1
             /\ SubSeq(projects'[i].messages, 1, Len(pending[k].updatedMessages))
                    = pending[k].updatedMessages
             /\ Last(projects'[i].messages).role = "model"
             /\ Last(projects'[i].messages).text =
                    IF Truthy(projects'[i].geometryData, "message")
                    THEN projects'[i].geometryData.message ELSE "Xong!"]_vars

\* a second generation has just succeeded on a project whose first one had
\* stored a scene: new scene, reply and cursor 0 are there together
C4_Witness ==
    /\ phase = "running" /\ outcome = "success" /\ ~isLoading
    /\ HasProject(projects, currentProjectId)
    /\ Len(messages) = 5
    /\ messages[3].text # "Loi roi em a."
    /\ Last(messages).id = ToString(now + 1)
    /\ geometryData = Normalize(DocFull)
    /\ currentStepIndex = 0

\* C5: once the mount effect ran, the active reference is unset or names a
\* project of the store.
C5_ActiveReferenceValid ==
    phase = "running" =>
        currentProjectId = Null \/ HasProject(projects, currentProjectId)

\* the step deletes the active project and leaves at least one project
DeleteActiveStep ==
    /\ phase = "running" /\ phase' = "running"
    /\ Len(projects') < Len(projects)
    /\ HasProject(projects, currentProjectId)
    /\ ~HasProject(projects', currentProjectId)
    /\ Len(projects') > 0

\* C6: after the active project is deleted from a store that keeps at least
\* one project, the active reference names a remaining project, and none of
\* the remaining projects has a greater lastModified.
C6_DeleteSelectsMostRecent ==
    [][DeleteActiveStep =>
          /\ HasProject(projects', currentProjectId')
          /\ \A j \in 1..Len(projects') :
                projects'[j].lastModified
                    <= projects'[FindIndex(projects', currentProjectId')].lastModified]_vars

\* C7: deleting the only project leaves the store empty and the active
\* reference unset, and a create on the empty store yields one project, the
\* active one.
C7_DeleteLastThenCreate ==
    [][/\ (phase = "running" /\ phase' = "running"
             /\ Len(projects) = 1 /\ Len(projects') = 0) =>
             currentProjectId' = Null
       /\ (phase = "running" /\ phase' = "running"
             /\ Len(projects) = 0 /\ Len(projects') > 0) =>
             /\ Len(projects') = 1
             /\ currentProjectId' = projects'[1].id]_vars

StepCount(p) == IF p.geometryData = NullGeometry THEN 0 ELSE Len(p.geometryData.steps)

\* C8: every project's cursor lies in [0, max(0, steps.length - 1)].
C8_CursorInRange ==
    \A i \in 1..Len(projects) :
        projects[i].currentStepIndex \in 0..Max(0, StepCount(projects[i]) - 1)

Clamp(n, len) == Max(0, Min(n, len - 1))

\* the step changes the cursor of projects[i] and nothing else of its scene
\* or transcript: a cursor move
CursorMoveStep(i) ==
    /\ phase = "running" /\ phase' = "running"
    /\ Len(projects') = Len(projects)
    /\ i \in 1..Len(projects)
    /\ projects'[i].currentStepIndex # projects[i].currentStepIndex
    /\ projects'[i].geometryData = projects[i].geometryData
    /\ projects'[i].messages = projects[i].messages

\* C9: a cursor move stores its request clamped to [0, steps.length - 1].
C9_CursorMoveClamps ==
    [][\A i \in 1..Len(projects) : CursorMoveStep(i) =>
          \E n \in CursorRequests :
              projects'[i].currentStepIndex = Clamp(n, StepCount(projects[i]))]_vars

\* C10: with a credential, for every JSON object that lacks any subset of the
\* optional fields, generateGeometry returns (does not throw) a scene holding
\* all seven containers, empty where the document had none, and a type that
\* is 2D or 3D.
C10_NormalizerTotal ==
    (/\ normOut # NotRun
     /\ normIn.apiKey
     /\ normIn.response.kind = "jsonObject") =>
        /\ normOut.ok
        /\ \A k \in ContainerFields :
              /\ Has(normOut.data, k)
              /\ Has(normIn.response.value, k) \/ normOut.data[k] = <<>>
        /\ normOut.data.type \in {"2D", "3D"}

\* What holds of the normalizer: the same, for the documents whose type is
\* absent, empty, 2D or 3D.
NormalizerTotalOnKnownTypes ==
    (/\ normOut # NotRun
     /\ normIn.apiKey
     /\ normIn.response.kind = "jsonObject"
     /\ Has(normIn.response.value, "type") =>
            normIn.response.value.type \in {"2D", "3D", ""}) =>
        /\ normOut.ok
        /\ \A k \in ContainerFields :
              /\ Has(normOut.data, k)
              /\ Has(normIn.response.value, k) \/ normOut.data[k] = <<>>
        /\ normOut.data.type \in {"2D", "3D"}

\* C11: the normalized scene's type is 2D when the document has no type or
\* one that is neither 2D nor 3D, and is the document's type when that is 2D
\* or 3D.
C11_TypeDefaultsTo2D ==
    (normOut # NotRun /\ normOut.ok) =>
        normOut.data.type =
            IF /\ Has(normIn.response.value, "type")
               /\ normIn.response.value.type \in {"2D", "3D"}
            THEN normIn.response.value.type
            ELSE "2D"

\* What holds of the normalizer: a type that is absent or the empty string
\* becomes 2D, every other type is kept as it is.
TypeDefaultsOnlyWhenFalsy ==
    (normOut # NotRun /\ normOut.ok) =>
        normOut.data.type =
            IF /\ Has(normIn.response.value, "type")
               /\ normIn.response.value.type # ""
            THEN normIn.response.value.type
            ELSE "2D"
\* C12: whenever the App is running the stored record is the JSON text of
\* the in-memory sequence, so every create, delete and update is written in
\* the step that made it and in that order, and a reload reads back the
\* sequence the App held, leaving the record as it was.
C12_WriteThrough ==
    [][/\ phase' = "running" =>
             (storage'.kind = "json" /\ storage'.value = projects')
       /\ (phase = "running" /\ phase' = "mounting") =>
             (projects' = projects /\ storage' = storage)]_vars

\* the page was loaded again after two creates, a send and its successful
\* response: both projects, the transcript and the scene are back
C12_Witness ==
    /\ phase = "mounting" /\ Len(projects) = 2
    /\ storage = [kind |-> "json", value |-> projects]
    /\ \E i \in 1..2 :
          /\ projects[i].geometryData # NullGeometry
          /\ Len(projects[i].messages) = 3

\* the step ends a startup: the mount effect ran
StartupStep == phase = "mounting" /\ phase' = "running"

\* the store starts empty and the startup leaves one fresh, active project
StartsEmptyAndCreates ==
    /\ projects = <<>>
    /\ Len(projects') = 1
    /\ projects'[1].messages = <<DEFAULT_WELCOME_MSG>>
    /\ projects'[1].geometryData = NullGeometry
    /\ projects'[1].currentStepIndex = 0
    /\ currentProjectId' = projects'[1].id

\* C13: no startup ends in an error state, whatever storage holds, and on
\* storage that is absent, unparseable or an empty sequence the store
\* starts empty and one fresh project is created and made active.
C13_StartupTreatsCorruptAsEmpty ==
    /\ [](phase # "crashed")
    /\ [][(StartupStep /\ storage \in {Absent, Unparseable, Stored(<<>>)})
            => StartsEmptyAndCreates]_vars

\* What holds of the startup: the second half, on storage that is absent,
\* unparseable or an empty sequence.
StartupOnAbsentUnparseableEmpty ==
    [][(StartupStep /\ storage \in {Absent, Unparseable, Stored(<<>>)})
          => StartsEmptyAndCreates]_vars
\* the step keeps the projects of the store and their order: it is neither
\* a create, a delete nor a page load
SameProjectsStep ==
    /\ phase = "running" /\ phase' = "running"
    /\ Len(projects') = Len(projects)

\* C14: a step that changes a field of an existing project keeps its id and
\* its set of fields, stamps its lastModified with the current time, and
\* leaves every other project as it was.
C14_UpdateStampsOnlyTarget ==
    [][SameProjectsStep =>
          \A i \in 1..Len(projects) : projects'[i] # projects[i] =>
             /\ projects'[i].id = projects[i].id
             /\ DOMAIN projects'[i] = DOMAIN projects[i]
             /\ projects'[i].lastModified = now'
             /\ \A j \in 1..Len(projects) : j # i => projects'[j] = projects[j]]_vars

\* What holds of update: the same, where the projects left as they were
\* are those whose id differs from the changed project's.
UpdateStampsEveryProjectOfTheId ==
    [][SameProjectsStep =>
          \A i \in 1..Len(projects) : projects'[i] # projects[i] =>
             /\ projects'[i].id = projects[i].id
             /\ DOMAIN projects'[i] = DOMAIN projects[i]
             /\ projects'[i].lastModified = now'
             /\ \A j \in 1..Len(projects) :
                   projects[j].id # projects[i].id => projects'[j] = projects[j]]_vars
IsFailureMessage(m) == m.role = "model" /\ m.text = "Loi roi em a."

\* the transcript ends with a user message, the failure message that
\* answered it, and a second user message
EndsWithFailedExchangeAndUser(um) ==
    /\ Len(um) >= 4
    /\ um[Len(um) - 2].role = "user"
    /\ IsFailureMessage(um[Len(um) - 1])
    /\ um[Len(um)].role = "user"

\* C15: a send on a project whose last generation failed starts from the
\* transcript that ends with the first user message and the failure message
\* and adds the second user message; when that second generation succeeds,
\* the project's scene is the normalized document of the response and its
\* transcript is that of the send, in the same order, plus the model reply.
C15_FailureThenSuccess ==
    [][/\ (SendStep /\ HasProject(projects, currentProjectId)
             /\ Len(messages) >= 3 /\ IsFailureMessage(Last(messages))
             /\ messages[Len(messages) - 1].role = "user") =>
             /\ EndsWithFailedExchangeAndUser(Last(pending').updatedMessages)
             /\ SubSeq(Last(pending').updatedMessages, 1, Len(messages)) = messages
             /\ Last(pending').target = currentProjectId
       /\ \A k \in 1..Len(pending) :
             (/\ ResumeStep(k) /\ outcome' = "success"
              /\ EndsWithFailedExchangeAndUser(pending[k].updatedMessages)) =>
                \A i \in 1..Len(projects) : projects[i].id = pending[k].target =>
                   LET um == pending[k].updatedMessages
                       tr == projects'[i].messages
                   IN  /\ \E d \in AppDocs :
                             /\ projects'[i].geometryData = Normalize(d)
                             /\ Last(tr).text = IF Truthy(d, "message")
                                                THEN d.message ELSE "Xong!"
                       /\ Len(tr) = Len(um) + 1
                       /\ \A n \in 1..Len(um) : tr[n] = um[n]
                       /\ Last(tr).role = "model"
                       /\ ~IsFailureMessage(Last(tr))]_vars

\* on the active project a first generation failed and a second one has
\* just succeeded with the full document
C15_Witness ==
    /\ phase = "running" /\ outcome = "success" /\ ~isLoading
    /\ HasProject(projects, currentProjectId)
    /\ Len(messages) = 5
    /\ messages[2].role = "user" /\ IsFailureMessage(messages[3])
    /\ messages[4].role = "user"
    /\ messages[5].role = "model" /\ messages[5].text = "Hi"
    /\ geometryData = Normalize(DocFull)
\* C16: a startup on a stored sequence that is not empty, with no active
\* id yet, creates and changes no project and makes active a project whose
\* lastModified no stored project exceeds.
C16_StartupSelectsMostRecent ==
    [][(StartupStep /\ Len(projects) > 0 /\ currentProjectId = Null) =>
          /\ projects' = projects
          /\ storage'.value = projects
          /\ HasProject(projects, currentProjectId')
          /\ \A j \in 1..Len(projects) :
                projects[j].lastModified
                    <= projects[FindIndex(projects, currentProjectId')].lastModified]_vars

\* the App runs on two stored projects with nothing in flight, and the
\* active one is the older-created, later-modified second of the list, as
\* a startup on that store leaves it
C16_Witness ==
    /\ phase = "running" /\ ~isLoading /\ pending = <<>>
    /\ Len(projects) = 2
    /\ projects[2].lastModified > projects[1].lastModified
    /\ projects[2].id # projects[1].id
    /\ currentProjectId = projects[2].id
    /\ storage = [kind |-> "json", value |-> projects]
\* the step adds one project: createProject, from the button or the mount
\* effect
CreateStep == phase' = "running" /\ Len(projects') = Len(projects) + 1

\* p is a project as create seeds it: the welcome message alone, no scene,
\* cursor 0
FreshProject(p) ==
    /\ p.messages = <<DEFAULT_WELCOME_MSG>>
    /\ p.geometryData = NullGeometry
    /\ p.currentStepIndex = 0

\* C17: create puts one new project after the projects of the store, seeded
\* with exactly the welcome message, no scene and cursor 0, makes it the
\* active project, and leaves the existing projects and their order as they
\* were.
C17_CreateAppends ==
    [][CreateStep =>
          /\ projects' = Append(projects, projects'[Len(projects')])
          /\ FreshProject(projects'[Len(projects')])
          /\ currentProjectId' = projects'[Len(projects')].id]_vars

\* C17 as amended: create puts the new project before the projects of the
\* store (the sequence is newest-created first); the rest as claimed, the
\* project found by the active reference being the new one.
C17_CreatePrepends ==
    [][CreateStep =>
          /\ projects' = <<projects'[1]>> \o projects
          /\ FreshProject(projects'[1])
          /\ currentProjectId' = projects'[1].id
          /\ FindIndex(projects', currentProjectId') = 1]_vars

\* a project was created while another, with a scene and a longer
\* transcript, was in the store: the new one is first, fresh and active,
\* the other one still holds its scene and transcript
C17_Witness ==
    /\ phase = "running" /\ Len(projects) = 2
    /\ FreshProject(projects[1])
    /\ currentProjectId = projects[1].id
    /\ projects[2].id # projects[1].id
    /\ projects[2].lastModified < projects[1].lastModified
    /\ projects[2].geometryData # NullGeometry
    /\ Len(projects[2].messages) = 3
\* C18: the in-flight flag is set exactly while a generation is suspended;
\* the step that resumes a generation takes the success or the failure
\* branch and clears the flag; and every suspended generation is eventually
\* gone (settled, or dropped with the page by a reload), after which the
\* flag is clear and the send control enabled again.
C18_GenerationResolves ==
    /\ [](isLoading <=> Len(pending) > 0)
    /\ [][\A k \in 1..Len(pending) : ResumeStep(k) =>
              (outcome' \in {"success", "failure"} /\ ~isLoading')]_vars
    /\ (Len(pending) > 0) ~> (Len(pending) = 0 /\ ~SendDisabled)

\* a generation has settled, by either branch, and nothing is in flight:
\* the flag is clear and a send is possible again
C18_Witness ==
    /\ phase = "running" /\ outcome \in {"success", "failure"}
    /\ pending = <<>> /\ ~isLoading /\ ~SendDisabled
    /\ HasProject(projects, currentProjectId)
    /\ Len(messages) = 3
\* C19: an update that names an id no project of the store has - the
\* response of a generation whose project was deleted meanwhile, or a send
\* while the active reference names a deleted project - changes neither
\* the project sequence, nor the stored record, nor the active reference,
\* and the handler runs to its end.  (Select and delete are only offered on
\* the rows of stored projects.)
C19_AbsentIdIsNoOp ==
    [][/\ \A k \in 1..Len(pending) :
             (ResumeStep(k) /\ ~HasProject(projects, pending[k].target)) =>
                /\ projects' = projects
                /\ storage' = storage
                /\ currentProjectId' = currentProjectId
                /\ outcome' \in {"success", "failure"}
                /\ ~isLoading'
       /\ (SendStep /\ ~HasProject(projects, currentProjectId)) =>
             /\ projects' = projects
             /\ storage' = storage
             /\ currentProjectId' = currentProjectId]_vars

\* the only project was deleted and a message was sent on the reference
\* left behind: the send's update found no project and the store is still
\* empty, and the response to come names the same absent id
C19_Witness ==
    /\ phase = "running" /\ projects = <<>>
    /\ currentProjectId # Null
    /\ isLoading /\ Len(pending) = 1
    /\ pending[1].target = currentProjectId
    /\ storage = [kind |-> "json", value |-> <<>>]
\* C20: the scene generateGeometry returns holds message, and likewise
\* mathSolution, exactly when the document holds it, with the document's
\* value (the empty string included); an absent one is not defaulted.
C20_OptionalTextsPassThrough ==
    (normOut # NotRun /\ normOut.ok) =>
        \A k \in {"message", "mathSolution"} :
            IF Has(normIn.response.value, k)
            THEN Has(normOut.data, k) /\ normOut.data[k] = normIn.response.value[k]
            ELSE ~Has(normOut.data, k)

\* a document with a solution text and no message was normalized: the
\* scene has the solution text and no message
C20_Witness ==
    /\ normOut # NotRun /\ normOut.ok
    /\ ~Has(normIn.response.value, "message")
    /\ Has(normIn.response.value, "mathSolution")
    /\ ~Has(normOut.data, "message")
    /\ normOut.data.mathSolution = "sol"
    /\ normOut.data.reasoning = <<>>
\* the ids of the projects of the store
ProjectIds(projs) == {projs[i].id : i \in 1..Len(projs)}

\* the project the k-th suspended generation was started on is still in the
\* store: it is the project of that id that holds the transcript of the
\* send (nothing appends to a transcript while its generation is suspended,
\* and a project created since holds the welcome message alone)
SenderInStore(k) ==
    \E i \in 1..Len(projects) :
        /\ projects[i].id = pending[k].target
        /\ projects[i].messages = pending[k].updatedMessages

\* C21: a response to a generation whose project was deleted meanwhile adds
\* no project and changes none: the project sequence after the response is
\* the one before it, and so is its set of ids.
C21_LateResponseAfterDelete ==
    [][\A k \in 1..Len(pending) : (ResumeStep(k) /\ ~SenderInStore(k)) =>
          /\ ProjectIds(projects') = ProjectIds(projects)
          /\ projects' = projects]_vars

\* What holds of the late response: the same, when no project of the store
\* has the id of the deleted one.
LateResponseOnAbsentId ==
    [][\A k \in 1..Len(pending) :
          (ResumeStep(k) /\ ~HasProject(projects, pending[k].target)) =>
             /\ ProjectIds(projects') = ProjectIds(projects)
             /\ projects' = projects]_vars

IsPrefix(s, t) == Len(s) <= Len(t) /\ SubSeq(t, 1, Len(s)) = s

\* C22: every project's transcript starts with the welcome message, and a
\* step that keeps the projects of the store (a send, a response, a cursor
\* move, a scene replacement, a select) leaves each transcript as it was or
\* with messages added at its end; a page load brings every transcript
\* back as it was.
C22_TranscriptOnlyGrows ==
    /\ [](\A i \in 1..Len(projects) :
              Len(projects[i].messages) >= 1
                  /\ projects[i].messages[1] = DEFAULT_WELCOME_MSG)
    /\ [][/\ SameProjectsStep =>
                 \A i \in 1..Len(projects) :
                     IsPrefix(projects[i].messages, projects'[i].messages)
          /\ (phase = "running" /\ phase' = "mounting") =>
                 (/\ Len(projects') = Len(projects)
                  /\ \A j \in 1..Len(projects) :
                        projects'[j].messages = projects[j].messages)]_vars

IdsDistinct(projs) ==
    \A i, j \in 1..Len(projs) : projs[i].id = projs[j].id => i = j

\* What holds of the transcripts: the same, for the steps taken while no
\* two projects of the store share an id.
TranscriptGrowsWhileIdsDistinct ==
    [][(SameProjectsStep /\ IdsDistinct(projects)) =>
          \A i \in 1..Len(projects) :
              IsPrefix(projects[i].messages, projects'[i].messages)]_vars
\* C23: no two projects of the store have the same id.
C23_ProjectIdsDistinct == IdsDistinct(projects)

\* What holds of create: the new project's id is the decimal text of the
\* clock reading at the create, whatever ids the store holds.
NewIdIsClockReading ==
    [][CreateStep => projects'[1].id = ToString(now)]_vars

\* C24: within each project's transcript no two messages have the same id.
C24_MessageIdsDistinct ==
    \A i \in 1..Len(projects) :
        \A a, b \in 1..Len(projects[i].messages) :
            projects[i].messages[a].id = projects[i].messages[b].id => a = b

\* What holds of the reply ids: a model reply stored by the success branch
\* has an id other than that of the user message it answers.
ReplyIdDiffersFromItsUserMessage ==
    [][\A k \in 1..Len(pending) : (ResumeStep(k) /\ outcome' = "success") =>
          \A i \in 1..Len(projects) : projects[i].id = pending[k].target =>
              Last(projects'[i].messages).id # Last(pending[k].updatedMessages).id]_vars

\* C25: whenever the active tab is 'reasoning' the current scene has a
\* non-empty reasoning list, and whenever it is 'solution' the current scene
\* has a solution text.
C25_ActiveTabHasContent ==
    /\ activeTab = "reasoning" => HasReasoning(chatGeometry)
    /\ activeTab = "solution" => HasSolution(chatGeometry)

\* What holds of the tabs: right after a click on a tab button, and right
\* after the scene is replaced by one that has a reasoning list or a
\* solution text, the active tab is one the scene has content for.
TabHasContentAfterClickOrFilledScene ==
    [][((chatGeometry' = chatGeometry /\ isChatOpen' = isChatOpen)
          \/ HasReasoning(chatGeometry') \/ HasSolution(chatGeometry')) =>
            /\ activeTab' = "reasoning" => HasReasoning(chatGeometry')
            /\ activeTab' = "solution" => HasSolution(chatGeometry')]_vars

====
